---- MODULE Spec2Model ----
(***************************************************************************)
(* Raspberry Pi 2B/3B/4B machine bring-up (hw/arm/raspi.c): RAM            *)
(* validation, board revision word, boot descriptor, firmware load, the    *)
(* secondary-core trampolines and the spin-table / mailbox handshake.      *)
(*                                                                         *)
(* 64-bit byte counts (RAM and image sizes) are records [mib, b] standing  *)
(* for mib * MiB + b with 0 <= b < MiB.  Instruction words are kept as     *)
(* their decoded form, one record per word of the blob, in blob order.     *)
(***************************************************************************)
EXTENDS Integers, Sequences, FiniteSets, TLC

VARIABLES
    version,    \* raspi_init's version argument
    ram_size,   \* machine->ram_size
    firmware,   \* machine->firmware: the image named, if any
    vcram,      \* the SoC's "vcram-size" property
    sd_bus,     \* whether the realized SoC exposes "sd-bus"
    pc,         \* the statement of raspi_init / setup_boot to run next
    log,        \* the statements run so far, in order
    err,        \* the error reported before exit(1), "none" otherwise
    soc,        \* RasPiState: the SoC object and the RAM region
    sb_ram,     \* setup_boot's ram_size argument
    fw_call,    \* the load_image_targphys call made, if any
    binfo,      \* static struct arm_boot_info binfo
    roms,       \* the blobs registered with rom_add_blob_fixed
    run,        \* "off", "reset" (no core has executed yet) or "running"
    mem,        \* guest RAM at the spin-table slot addresses
    mbox,       \* mailbox 3 of each core
    cpu         \* the secondary cores: pc, registers r, flag z, and the
                \* addresses loaded from (rd), the value last loaded (lv),
                \* the stores made (wr), the addresses at which the
                \* board-setup stub was entered (stub)

vars == <<version, ram_size, firmware, vcram, sd_bus,
          pc, log, err, soc, sb_ram, fw_call, binfo, roms, run, mem, mbox, cpu>>

machineVars == <<version, ram_size, firmware, vcram, sd_bus>>
guestVars == <<run, mem, mbox, cpu>>

(***************************** bounds **************************************)
\* Longest run of register-only instructions executed in one core step.
MaxLocalRun == 8

(************************** program constants ******************************)
SMPBOOT_ADDR == 768
MVBAR_ADDR == 1024
BOARDSETUP_ADDR == MVBAR_ADDR + 32
FIRMWARE_ADDR_2 == 32768
FIRMWARE_ADDR_3 == 524288
SPINTABLE_ADDR == 216
MiB == 1048576
BCM283X_NCPUS == 4

M_SONY_UK == 0
M_EMBEST == 2
C_BCM2835 == 0
C_BCM2836 == 1
C_BCM2837 == 2
C_BCM2711 == 3
T_2B == 4
T_3B == 8
T_4B == 17
R_1_0 == 0
R_1_1 == 1
R_1_2 == 2
R_1_3 == 3

(************************ 64-bit byte counts *******************************)
U64(m, b) == [mib |-> m, b |-> b]
Bytes(n) == U64(n \div MiB, n % MiB)
GiBs(n) == U64(1024 * n, 0)
U64Lt(x, y) == x.mib < y.mib \/ (x.mib = y.mib /\ x.b < y.b)
U64Le(x, y) == ~U64Lt(y, x)
\* x - y for x >= y (every subtraction of the program is on such operands here)
U64Sub(x, y) ==
    IF x.b >= y.b THEN U64(x.mib - y.mib, x.b - y.b)
    ELSE U64(x.mib - y.mib - 1, x.b + MiB - y.b)
U64Add(x, y) ==
    IF x.b + y.b < MiB THEN U64(x.mib + y.mib, x.b + y.b)
    ELSE U64(x.mib + y.mib + 1, x.b + y.b - MiB)

RECURSIVE PopCount(_)
PopCount(n) == IF n = 0 THEN 0 ELSE (n % 2) + PopCount(n \div 2)

RECURSIVE BitLen(_)
BitLen(n) == IF n = 0 THEN 0 ELSE 1 + BitLen(n \div 2)

RECURSIVE BitOr(_, _)
BitOr(x, y) ==
    IF x = 0 THEN y
    ELSE IF y = 0 THEN x
    ELSE (IF x % 2 = 1 \/ y % 2 = 1 THEN 1 ELSE 0) + 2 * BitOr(x \div 2, y \div 2)

RECURSIVE BitAnd(_, _)
BitAnd(x, y) ==
    IF x = 0 \/ y = 0 THEN 0
    ELSE (IF x % 2 = 1 /\ y % 2 = 1 THEN 1 ELSE 0) + 2 * BitAnd(x \div 2, y \div 2)

\* x & ~y
BitClear(x, y) == x - BitAnd(x, y)

RECURSIVE Pow2(_)
Pow2(n) == IF n = 0 THEN 1 ELSE 2 * Pow2(n - 1)

Shl(x, n) == x * Pow2(n)

\* is_power_of_2 of qemu/host-utils.h: exactly one set bit
is_power_of_2(v) == PopCount(v.mib) + PopCount(v.b) = 1

\* clz64 of qemu/host-utils.h: leading zeros of a 64-bit value, 64 for zero
clz64(n) == 64 - BitLen(n)

(*************************** board table ***********************************)
Versions == {2, 3, 4}

bcm283x_boards(v) ==
    CASE v = 2 -> [board_id |-> 3139,
                   board_rev |-> [type |-> T_2B, revision |-> R_1_1,
                                  chip |-> C_BCM2836, manufacturer |-> M_EMBEST],
                   ram_size_min |-> GiBs(1), ram_size_max |-> GiBs(1)]
      [] v = 3 -> [board_id |-> 3140,
                   board_rev |-> [type |-> T_3B, revision |-> R_1_2,
                                  chip |-> C_BCM2837, manufacturer |-> M_SONY_UK],
                   ram_size_min |-> GiBs(1), ram_size_max |-> GiBs(1)]
      [] v = 4 -> [board_id |-> 3138,
                   board_rev |-> [type |-> T_4B, revision |-> R_1_1,
                                  chip |-> C_BCM2711, manufacturer |-> M_SONY_UK],
                   ram_size_min |-> GiBs(1), ram_size_max |-> GiBs(8)]

processor_typename(chip) ==
    CASE chip = C_BCM2836 -> "bcm2836"
      [] chip = C_BCM2837 -> "bcm2837"
      [] chip = C_BCM2711 -> "bcm2838"

(************************ RAM validation (raspi_init) **********************)
\* A plausible slip: the upper bound tested with >= instead of >.
ValidateRamStrictMax(size, v) ==
    IF U64Lt(size, bcm283x_boards(v).ram_size_min) THEN "TooSmall"
    ELSE IF U64Le(bcm283x_boards(v).ram_size_max, size) THEN "TooLarge"
    ELSE IF ~is_power_of_2(size) THEN "NotPowerOfTwo"
    ELSE "Ok"

ValidateRam(size, v) ==
    IF U64Lt(size, bcm283x_boards(v).ram_size_min) THEN "TooSmall"
    ELSE IF U64Lt(bcm283x_boards(v).ram_size_max, size) THEN "TooLarge"
    ELSE IF ~is_power_of_2(size) THEN "NotPowerOfTwo"
    ELSE "Ok"

(************************ revision word (raspi_init) ***********************)
\* A plausible slip: the board type shifted to offset 8 instead of 4.
BoardRevTypeAt8(size, v) ==
    BitOr(BitOr(BitOr(BitOr(
        Shl(63 - clz64(size.mib), 20),
        Shl(bcm283x_boards(v).board_rev.manufacturer, 16)),
        Shl(bcm283x_boards(v).board_rev.chip, 12)),
        Shl(bcm283x_boards(v).board_rev.type, 8)),
        Shl(bcm283x_boards(v).board_rev.revision, 0))

\* machine->ram_size / MiB is size.mib
BoardRev(size, v) ==
    BitOr(BitOr(BitOr(BitOr(
        Shl(63 - clz64(size.mib), 20),
        Shl(bcm283x_boards(v).board_rev.manufacturer, 16)),
        Shl(bcm283x_boards(v).board_rev.chip, 12)),
        Shl(bcm283x_boards(v).board_rev.type, 4)),
        Shl(bcm283x_boards(v).board_rev.revision, 0))

(********************** boot descriptor (setup_boot) ***********************)
\* static struct arm_boot_info binfo: zero-initialised storage
ZeroBootInfo ==
    [board_id |-> 0, ram_size |-> U64(0, 0), nb_cpus |-> 0,
     board_setup_addr |-> 0, write_board_setup |-> "NULL",
     secure_board_setup |-> FALSE, secure_boot |-> FALSE,
     smp_loader_start |-> 0, write_secondary_boot |-> "NULL",
     secondary_cpu_reset_hook |-> "NULL",
     entry |-> 0, firmware_loaded |-> FALSE]

\* A plausible slip: the secure setup test written as version <= 3.
SetupBootInfoSecureUpTo3(b, v, ramsz, ncpus) ==
    LET b1 == [b EXCEPT !.board_id = bcm283x_boards(v).board_id,
                        !.ram_size = ramsz,
                        !.nb_cpus = ncpus]
        b2 == IF v <= 3
              THEN [b1 EXCEPT !.board_setup_addr = BOARDSETUP_ADDR,
                              !.write_board_setup = "write_board_setup",
                              !.secure_board_setup = TRUE,
                              !.secure_boot = TRUE]
              ELSE b1
    IN  IF v >= 2
        THEN [b2 EXCEPT !.smp_loader_start = SMPBOOT_ADDR,
                        !.write_secondary_boot =
                            IF v = 2 THEN "write_smpboot" ELSE "write_smpboot64",
                        !.secondary_cpu_reset_hook = "reset_secondary"]
        ELSE b2

SetupBootInfo(b, v, ramsz, ncpus) ==
    LET b1 == [b EXCEPT !.board_id = bcm283x_boards(v).board_id,
                        !.ram_size = ramsz,
                        !.nb_cpus = ncpus]
        b2 == IF v <= 2
              THEN [b1 EXCEPT !.board_setup_addr = BOARDSETUP_ADDR,
                              !.write_board_setup = "write_board_setup",
                              !.secure_board_setup = TRUE,
                              !.secure_boot = TRUE]
              ELSE b1
    IN  IF v >= 2
        THEN [b2 EXCEPT !.smp_loader_start = SMPBOOT_ADDR,
                        !.write_secondary_boot =
                            IF v = 2 THEN "write_smpboot" ELSE "write_smpboot64",
                        !.secondary_cpu_reset_hook = "reset_secondary"]
        ELSE b2

(************************ firmware image (setup_boot) **********************)
NoFirmware == [present |-> FALSE, size |-> U64(0, 0)]
Image(sz) == [present |-> TRUE, size |-> sz]

\* A plausible slip: the Pi 2 address used for every generation.
FirmwareAddrAlways2(v) == FIRMWARE_ADDR_2

FirmwareAddr(v) == IF v >= 3 THEN FIRMWARE_ADDR_3 ELSE FIRMWARE_ADDR_2

\* load_image_targphys(filename, addr, max_sz): the image size when it is at
\* most max_sz (the image is then placed at addr), -1 otherwise.  Only the
\* sign of the result is used by setup_boot.
load_image_targphys(img, addr, max_sz) ==
    IF U64Le(img.size, max_sz) THEN 0 ELSE -1

(******************************* init **************************************)
RamSizes ==
    { U64(512, 0), U64(1023, MiB - 1), GiBs(1), U64(1024, 1), U64(1536, 0),
      GiBs(2), GiBs(3), GiBs(4), GiBs(8), U64(8192, 1), GiBs(10), GiBs(16) }

VcramSizes == { U64(64, 0), U64(128, 0) }

\* Image sizes around the space left after either load address.
FirmwareSizes(ram, vc) ==
    LET top == U64Sub(ram, vc)
        at2 == U64Sub(top, Bytes(32768))
        at3 == U64Sub(top, Bytes(524288))
        one == U64(0, 1)
    IN  { U64(0, 4096), U64Sub(at2, one), at2, U64Add(at2, one),
          U64Sub(at3, one), at3, U64Add(at3, one) }

ZeroSoc ==
    [type |-> "none", ram_linked |-> FALSE, enabled_cpus |-> 0,
     board_rev |-> -1, realized |-> FALSE, sd_card |-> FALSE,
     ram |-> U64(0, 0), ram_mapped |-> FALSE]

SlotAddrs == { SPINTABLE_ADDR + 8 * i : i \in 0 .. 3 }
MBOX3_RDCLR == 1073742028
MBOX3_SET == MBOX3_RDCLR - 64
MboxIds == 0 .. (BCM283X_NCPUS - 1)
Secondaries == 1 .. (BCM283X_NCPUS - 1)
EntryVals == { 32768, 65536 }
SlotVals == {0} \cup EntryVals

RegNames == { "r0", "r3", "r5", "lr", "x0", "x1", "x2", "x3", "x4", "x5", "x6" }

\* A core out of reset (arm_cpu_reset zeroes the register file).
ResetCpu(start) ==
    [pc |-> start, r |-> [n \in RegNames |-> 0], z |-> FALSE,
     rd |-> {}, wr |-> <<>>, lv |-> 0, stub |-> <<>>]

InitCommon ==
    /\ version \in Versions
    /\ pc = "validate_ram"
    /\ log = <<>>
    /\ err = "none"
    /\ soc = ZeroSoc
    /\ sb_ram = U64(0, 0)
    /\ fw_call = [made |-> FALSE, addr |-> 0, max_sz |-> U64(0, 0), r |-> 0]
    /\ binfo = ZeroBootInfo
    /\ roms = {}
    /\ run = "off"
    /\ mbox = [i \in MboxIds |-> 0]
    /\ cpu = [c \in Secondaries |-> ResetCpu(0)]

\* Every machine configuration raspi_init can be entered with.
Init ==
    /\ InitCommon
    /\ ram_size \in RamSizes
    /\ vcram \in VcramSizes
    /\ firmware \in {NoFirmware} \cup { Image(sz) : sz \in FirmwareSizes(ram_size, vcram) }
    /\ sd_bus \in BOOLEAN
    /\ mem = [a \in SlotAddrs |-> 0]

(************************* trampoline blobs *********************************)
\* write_smpboot's smpboot[], one record per word, decoded.
\* 0xe3a0fe00 + (BOARDSETUP_ADDR >> 4) is "mov pc, #imm8 ror 28": imm8 << 4.
\* 0x0afffffb is beq with imm24 = -5 (target = pc + 8 - 20).
\* A plausible slip: the mailbox is not cleared before the jump (str left out).
smpboot32_no_clear ==
    << [op |-> "mov_lr_pc"],
       [op |-> "mov_pc_imm", imm |-> (BOARDSETUP_ADDR \div 16) * 16],
       [op |-> "mrc_mpidr", rd |-> "r0"],
       [op |-> "ubfx", rd |-> "r0", rn |-> "r0", lsb |-> 0, width |-> 2],
       [op |-> "ldr_lit", rd |-> "r5", off |-> 20],
       [op |-> "yield"],
       [op |-> "ldr_reg", rt |-> "r3", rn |-> "r5", rm |-> "r0", lsl |-> 4],
       [op |-> "cmp_imm", rn |-> "r3", imm |-> 0],
       [op |-> "beq", off |-> -5],
       [op |-> "yield"],
       [op |-> "bx", rm |-> "r3"],
       [op |-> "word", val |-> 1073742028] >>

smpboot32 ==
    << [op |-> "mov_lr_pc"],
       [op |-> "mov_pc_imm", imm |-> (BOARDSETUP_ADDR \div 16) * 16],
       [op |-> "mrc_mpidr", rd |-> "r0"],
       [op |-> "ubfx", rd |-> "r0", rn |-> "r0", lsb |-> 0, width |-> 2],
       [op |-> "ldr_lit", rd |-> "r5", off |-> 20],
       [op |-> "yield"],
       [op |-> "ldr_reg", rt |-> "r3", rn |-> "r5", rm |-> "r0", lsl |-> 4],
       [op |-> "cmp_imm", rn |-> "r3", imm |-> 0],
       [op |-> "beq", off |-> -5],
       [op |-> "str_reg", rt |-> "r3", rn |-> "r5", rm |-> "r0", lsl |-> 4],
       [op |-> "bx", rm |-> "r3"],
       [op |-> "word", val |-> 1073742028] >>

\* write_smpboot64's smpboot[]; 0xb4ffffc4 is cbz x4 with imm19 = -2.
\* A plausible slip: the core id is not masked (and x6, x6, #3 left out).
smpboot64_no_mask ==
    << [op |-> "mov_imm", rd |-> "x5", imm |-> 216],
       [op |-> "mrs_mpidr", rd |-> "x6"],
       [op |-> "wfe"],
       [op |-> "wfe"],
       [op |-> "ldr_reg", rt |-> "x4", rn |-> "x5", rm |-> "x6", lsl |-> 3],
       [op |-> "cbz", rt |-> "x4", off |-> -2],
       [op |-> "mov_imm", rd |-> "x0", imm |-> 0],
       [op |-> "mov_imm", rd |-> "x1", imm |-> 0],
       [op |-> "mov_imm", rd |-> "x2", imm |-> 0],
       [op |-> "mov_imm", rd |-> "x3", imm |-> 0],
       [op |-> "br", rn |-> "x4"] >>

smpboot64 ==
    << [op |-> "mov_imm", rd |-> "x5", imm |-> 216],
       [op |-> "mrs_mpidr", rd |-> "x6"],
       [op |-> "and_imm", rd |-> "x6", rn |-> "x6", imm |-> 3],
       [op |-> "wfe"],
       [op |-> "ldr_reg", rt |-> "x4", rn |-> "x5", rm |-> "x6", lsl |-> 3],
       [op |-> "cbz", rt |-> "x4", off |-> -2],
       [op |-> "mov_imm", rd |-> "x0", imm |-> 0],
       [op |-> "mov_imm", rd |-> "x1", imm |-> 0],
       [op |-> "mov_imm", rd |-> "x2", imm |-> 0],
       [op |-> "mov_imm", rd |-> "x3", imm |-> 0],
       [op |-> "br", rn |-> "x4"] >>

\* A plausible slip: the slot block left out of the image (no zeroing at load).
spintables_missing == << >>

spintables == << 0, 0, 0, 0 >>

(****************************** rom blobs **********************************)
\* rom_add_blob_fixed(name, blob, len, addr); unit is the blob's element size
Rom(name, data, unit, addr) ==
    [name |-> name, addr |-> addr, unit |-> unit, data |-> data]

RomLen(r) == r.unit * Len(r.data)
RomCovers(r, a) == r.addr <= a /\ a < r.addr + RomLen(r)
RomAt(r, a) == r.data[((a - r.addr) \div r.unit) + 1]

\* A plausible slip: the blob placed so that it runs into the secure vectors.
write_smpboot_late(info) ==
    { Rom("raspi_smpboot", smpboot32, 4, MVBAR_ADDR - 16) }

write_smpboot(info) ==
    { Rom("raspi_smpboot", smpboot32, 4, info.smp_loader_start) }

write_smpboot64(info) ==
    { Rom("raspi_smpboot", smpboot64, 4, info.smp_loader_start),
      Rom("raspi_spintables", spintables, 8, SPINTABLE_ADDR) }

\* arm_write_secure_board_setup_dummy_smc(cpu, info, mvbar_addr): eight vector
\* words at mvbar_addr and an eleven-word stub at info->board_setup_addr that
\* sets the monitor vector base and returns to lr.
arm_write_secure_board_setup_dummy_smc(info, mvbar_addr) ==
    { Rom("mvbar", [i \in 1 .. 8 |-> [op |-> "vector"]], 4, mvbar_addr),
      Rom("board-setup",
          [i \in 1 .. 11 |-> IF i = 1 THEN [op |-> "board_setup"]
                             ELSE [op |-> "stub_body"]],
          4, info.board_setup_addr) }

write_board_setup(info) ==
    arm_write_secure_board_setup_dummy_smc(info, MVBAR_ADDR)

\* arm_load_kernel, as far as this file relies on it: the registered
\* board-setup and secondary-boot writers are called while the image is loaded.
arm_load_kernel(info) ==
    (IF info.write_board_setup = "write_board_setup"
     THEN write_board_setup(info) ELSE {})
    \cup
    (IF info.nb_cpus > 1 /\ info.write_secondary_boot = "write_smpboot"
     THEN write_smpboot(info)
     ELSE IF info.nb_cpus > 1 /\ info.write_secondary_boot = "write_smpboot64"
     THEN write_smpboot64(info)
     ELSE {})

(***************************** raspi_init **********************************)
\* A plausible slip: the SoC realized before "board-rev" is set.
RaspiInitOrderRealizeFirst ==
    << "validate_ram", "init_soc", "alloc_ram", "setup_soc", "realize_soc",
       "encode_rev", "attach_sd", "get_vcram", "setup_boot", "load_firmware",
       "arm_load_kernel" >>

\* The statements of raspi_init and of the setup_boot it ends with, in order.
RaspiInitOrder ==
    << "validate_ram", "init_soc", "alloc_ram", "setup_soc", "encode_rev",
       "realize_soc", "attach_sd", "get_vcram", "setup_boot", "load_firmware",
       "arm_load_kernel" >>

StepAfter(p) ==
    LET i == CHOOSE k \in 1 .. Len(RaspiInitOrder) : RaspiInitOrder[k] = p
    IN  IF i = Len(RaspiInitOrder) THEN "done" ELSE RaspiInitOrder[i + 1]

\* A plausible slip: exit(1) left out of the "too large" branch.
AfterValidateNoExitOnLarge(e) ==
    IF e \in {"Ok", "TooLarge"} THEN StepAfter("validate_ram") ELSE "exit"

AfterValidate(e) == IF e = "Ok" THEN StepAfter("validate_ram") ELSE "exit"

ValidateRamStep ==
    /\ pc = "validate_ram"
    /\ LET e == ValidateRam(ram_size, version)
       IN  /\ err' = (IF e = "Ok" THEN err ELSE e)
           /\ pc' = AfterValidate(e)
    /\ log' = Append(log, "validate_ram")
    /\ UNCHANGED <<machineVars, soc, sb_ram, fw_call, binfo, roms, guestVars>>

InitSoc ==
    /\ pc = "init_soc"
    /\ soc' = [soc EXCEPT
                 !.type = processor_typename(bcm283x_boards(version).board_rev.chip)]
    /\ pc' = StepAfter("init_soc")
    /\ log' = Append(log, "init_soc")
    /\ UNCHANGED <<machineVars, err, sb_ram, fw_call, binfo, roms, guestVars>>

AllocRam ==
    /\ pc = "alloc_ram"
    /\ soc' = [soc EXCEPT !.ram = ram_size, !.ram_mapped = TRUE]
    /\ pc' = StepAfter("alloc_ram")
    /\ log' = Append(log, "alloc_ram")
    /\ UNCHANGED <<machineVars, err, sb_ram, fw_call, binfo, roms, guestVars>>

SetupSoc ==
    /\ pc = "setup_soc"
    /\ soc' = [soc EXCEPT !.ram_linked = TRUE, !.enabled_cpus = BCM283X_NCPUS]
    /\ pc' = StepAfter("setup_soc")
    /\ log' = Append(log, "setup_soc")
    /\ UNCHANGED <<machineVars, err, sb_ram, fw_call, binfo, roms, guestVars>>

EncodeRev ==
    /\ pc = "encode_rev"
    /\ soc' = [soc EXCEPT !.board_rev = BoardRev(ram_size, version)]
    /\ pc' = StepAfter("encode_rev")
    /\ log' = Append(log, "encode_rev")
    /\ UNCHANGED <<machineVars, err, sb_ram, fw_call, binfo, roms, guestVars>>

RealizeSoc ==
    /\ pc = "realize_soc"
    /\ soc' = [soc EXCEPT !.realized = TRUE]
    /\ pc' = StepAfter("realize_soc")
    /\ log' = Append(log, "realize_soc")
    /\ UNCHANGED <<machineVars, err, sb_ram, fw_call, binfo, roms, guestVars>>

AttachSd ==
    /\ pc = "attach_sd"
    /\ IF sd_bus
       THEN /\ soc' = [soc EXCEPT !.sd_card = TRUE]
            /\ pc' = StepAfter("attach_sd")
            /\ err' = err
       ELSE /\ soc' = soc
            /\ pc' = "exit"
            /\ err' = "NoSdBus"
    /\ log' = Append(log, "attach_sd")
    /\ UNCHANGED <<machineVars, sb_ram, fw_call, binfo, roms, guestVars>>

GetVcram ==
    /\ pc = "get_vcram"
    /\ sb_ram' = U64Sub(ram_size, vcram)
    /\ pc' = StepAfter("get_vcram")
    /\ log' = Append(log, "get_vcram")
    /\ UNCHANGED <<machineVars, err, soc, fw_call, binfo, roms, guestVars>>

(****************************** setup_boot *********************************)
SetupBoot ==
    /\ pc = "setup_boot"
    /\ binfo' = SetupBootInfo(binfo, version, sb_ram, BCM283X_NCPUS)
    /\ pc' = StepAfter("setup_boot")
    /\ log' = Append(log, "setup_boot")
    /\ UNCHANGED <<machineVars, err, soc, sb_ram, fw_call, roms, guestVars>>

LoadFirmware ==
    /\ pc = "load_firmware"
    /\ IF firmware.present
       THEN LET firmware_addr == FirmwareAddr(version)
                max_sz == U64Sub(sb_ram, Bytes(firmware_addr))
                r == load_image_targphys(firmware, firmware_addr, max_sz)
            IN  /\ fw_call' = [made |-> TRUE, addr |-> firmware_addr,
                               max_sz |-> max_sz, r |-> r]
                /\ IF r < 0
                   THEN /\ err' = "FirmwareLoad"
                        /\ pc' = "exit"
                        /\ binfo' = binfo
                   ELSE /\ err' = err
                        /\ pc' = StepAfter("load_firmware")
                        /\ binfo' = [binfo EXCEPT !.entry = firmware_addr,
                                                  !.firmware_loaded = TRUE]
       ELSE /\ pc' = StepAfter("load_firmware")
            /\ UNCHANGED <<err, binfo, fw_call>>
    /\ log' = Append(log, "load_firmware")
    /\ UNCHANGED <<machineVars, soc, sb_ram, roms, guestVars>>

ArmLoadKernel ==
    /\ pc = "arm_load_kernel"
    /\ roms' = roms \cup arm_load_kernel(binfo)
    /\ pc' = StepAfter("arm_load_kernel")
    /\ log' = Append(log, "arm_load_kernel")
    /\ UNCHANGED <<machineVars, err, soc, sb_ram, fw_call, binfo, guestVars>>

NextInit ==
    \/ ValidateRamStep
    \/ InitSoc
    \/ AllocRam
    \/ SetupSoc
    \/ EncodeRev
    \/ RealizeSoc
    \/ AttachSd
    \/ GetVcram
    \/ SetupBoot
    \/ LoadFirmware
    \/ ArmLoadKernel

\* Machine construction, from entry to raspi_init to its return or exit(1).
Spec == Init /\ [][NextInit]_vars

(************************* the cores and the guest **************************)
\* MPIDR of core c: affinity level 0 is the core number; the bits above it
\* (cluster id 0xf on the Pi 2, a stand-in for the RES1 bit 31 elsewhere) are
\* not zero.
Mpidr(c) == (IF version = 2 THEN 3840 ELSE 128) + c

CodeRoms == { r \in roms : r.unit = 4 }

Fetch(a) ==
    IF \E r \in CodeRoms : RomCovers(r, a)
    THEN RomAt(CHOOSE r \in CodeRoms : RomCovers(r, a), a)
    ELSE [op |-> "none"]

InTrampoline(a) ==
    \E r \in roms : r.name = "raspi_smpboot" /\ RomCovers(r, a)

LocalOps ==
    { "mov_lr_pc", "mov_pc_imm", "mrc_mpidr", "mrs_mpidr", "ubfx", "and_imm",
      "ldr_lit", "yield", "wfe", "cmp_imm", "beq", "cbz", "mov_imm",
      "board_setup" }
BusOps == { "ldr_reg", "str_reg", "bx", "br" }

\* One instruction that touches only the core's own registers.
ExecLocal(s, i, c) ==
    CASE i.op = "mov_lr_pc" ->
           [s EXCEPT !.r["lr"] = s.pc + 8, !.pc = s.pc + 4]
      [] i.op = "mov_pc_imm" ->
           [s EXCEPT !.pc = i.imm]
      [] i.op = "board_setup" ->
           [s EXCEPT !.stub = Append(s.stub, s.pc), !.pc = s.r["lr"]]
      [] i.op \in {"mrc_mpidr", "mrs_mpidr"} ->
           [s EXCEPT !.r[i.rd] = Mpidr(c), !.pc = s.pc + 4]
      [] i.op = "ubfx" ->
           [s EXCEPT !.r[i.rd] = (s.r[i.rn] \div Pow2(i.lsb)) % Pow2(i.width),
                     !.pc = s.pc + 4]
      [] i.op = "and_imm" ->
           [s EXCEPT !.r[i.rd] = BitAnd(s.r[i.rn], i.imm), !.pc = s.pc + 4]
      [] i.op = "ldr_lit" ->
           [s EXCEPT !.r[i.rd] = Fetch(s.pc + 8 + i.off).val, !.pc = s.pc + 4]
      [] i.op \in {"yield", "wfe"} ->
           [s EXCEPT !.pc = s.pc + 4]
      [] i.op = "cmp_imm" ->
           [s EXCEPT !.z = (s.r[i.rn] = i.imm), !.pc = s.pc + 4]
      [] i.op = "beq" ->
           [s EXCEPT !.pc = IF s.z THEN s.pc + 8 + 4 * i.off ELSE s.pc + 4]
      [] i.op = "cbz" ->
           [s EXCEPT !.pc = IF s.r[i.rt] = 0 THEN s.pc + 4 * i.off ELSE s.pc + 4]
      [] i.op = "mov_imm" ->
           [s EXCEPT !.r[i.rd] = i.imm, !.pc = s.pc + 4]

\* Register-only instructions commute with every other core and with the
\* guest, so a core step runs them up to its next load, store or jump.
RECURSIVE RunLocal(_, _, _)
RunLocal(s, c, fuel) ==
    LET i == Fetch(s.pc)
    IN  IF fuel = 0 \/ i.op \notin LocalOps THEN s
        ELSE RunLocal(ExecLocal(s, i, c), c, fuel - 1)

MboxAddr(i) == MBOX3_RDCLR + 16 * i
IsMbox(a) == \E i \in MboxIds : a = MboxAddr(i)
MboxOf(a) == CHOOSE i \in MboxIds : a = MboxAddr(i)

Load(a) ==
    IF a \in SlotAddrs THEN mem[a]
    ELSE IF IsMbox(a) THEN mbox[MboxOf(a)]
    ELSE 0

EffAddr(s, i) == s.r[i.rn] + Shl(s.r[i.rm], i.lsl)

CoreStep(c) ==
    /\ run # "off"
    /\ Fetch(cpu[c].pc).op \in LocalOps \cup BusOps
    /\ LET s == RunLocal(cpu[c], c, MaxLocalRun)
           i == Fetch(s.pc)
       IN  CASE i.op = "ldr_reg" ->
                  /\ cpu' = [cpu EXCEPT ![c] =
                               [s EXCEPT !.r[i.rt] = Load(EffAddr(s, i)),
                                         !.lv = Load(EffAddr(s, i)),
                                         !.rd = s.rd \cup {EffAddr(s, i)},
                                         !.pc = s.pc + 4]]
                  /\ UNCHANGED <<mem, mbox>>
             [] i.op = "str_reg" ->
                  /\ cpu' = [cpu EXCEPT ![c] =
                               [s EXCEPT !.wr = Append(s.wr, <<EffAddr(s, i), s.r[i.rt]>>),
                                         !.pc = s.pc + 4]]
                  /\ mbox' = IF IsMbox(EffAddr(s, i))
                             THEN [mbox EXCEPT ![MboxOf(EffAddr(s, i))] =
                                      BitClear(@, s.r[i.rt])]
                             ELSE mbox
                  /\ mem' = IF EffAddr(s, i) \in SlotAddrs
                            THEN [mem EXCEPT ![EffAddr(s, i)] = s.r[i.rt]]
                            ELSE mem
             [] i.op = "bx" ->
                  /\ cpu' = [cpu EXCEPT ![c] = [s EXCEPT !.pc = s.r[i.rm]]]
                  /\ UNCHANGED <<mem, mbox>>
             [] i.op = "br" ->
                  /\ cpu' = [cpu EXCEPT ![c] = [s EXCEPT !.pc = s.r[i.rn]]]
                  /\ UNCHANGED <<mem, mbox>>
             [] OTHER ->
                  /\ cpu' = [cpu EXCEPT ![c] = s]
                  /\ UNCHANGED <<mem, mbox>>
    /\ run' = "running"
    /\ UNCHANGED <<machineVars, pc, log, err, soc, sb_ram, fw_call, binfo, roms>>

reset_secondary(info) == info.smp_loader_start

\* rom_reset: every registered blob is copied to its address again.
RomReset(m) ==
    [a \in DOMAIN m |->
        IF \E r \in roms : r.unit = 8 /\ RomCovers(r, a)
        THEN RomAt(CHOOSE r \in roms : r.unit = 8 /\ RomCovers(r, a), a)
        ELSE m[a]]

\* qemu_system_reset: the blobs are reloaded, the mailboxes cleared and every
\* core reset; do_cpu_reset calls the secondary reset hook on the others.
SystemReset ==
    /\ pc = "done"
    /\ mem' = RomReset(mem)
    /\ mbox' = [i \in MboxIds |-> 0]
    /\ cpu' = [c \in Secondaries |->
                 ResetCpu(IF binfo.secondary_cpu_reset_hook = "reset_secondary"
                          THEN reset_secondary(binfo) ELSE 0)]
    /\ run' = "reset"
    /\ UNCHANGED <<machineVars, pc, log, err, soc, sb_ram, fw_call, binfo, roms>>

\* The guest (the primary core, or a released one) stores to a spin-table slot.
GuestWriteSlot(a, v) ==
    /\ run # "off"
    /\ mem' = [mem EXCEPT ![a] = v]
    /\ run' = "running"
    /\ UNCHANGED <<machineVars, pc, log, err, soc, sb_ram, fw_call, binfo, roms,
                   mbox, cpu>>

\* The guest posts v to secondary core i's mailbox 3 (a store to its set
\* register), which is how a kernel releases that core.  The primary core's
\* own mailbox 3 is not posted to: no core running the trampoline owns it.
GuestPost(i, v) ==
    /\ run # "off"
    /\ mbox' = [mbox EXCEPT ![i] = BitOr(@, v)]
    /\ run' = "running"
    /\ UNCHANGED <<machineVars, pc, log, err, soc, sb_ram, fw_call, binfo, roms,
                   mem, cpu>>

InitDefault ==
    /\ InitCommon
    /\ ram_size = GiBs(1)
    /\ vcram = U64(64, 0)
    /\ firmware = NoFirmware
    /\ sd_bus = TRUE

\* A Pi 3 / Pi 4 with the default configuration; RAM content is arbitrary.
InitSmp64 ==
    /\ InitDefault
    /\ version \in {3, 4}
    /\ mem \in [SlotAddrs -> SlotVals]

NextSmp64 ==
    \/ NextInit
    \/ SystemReset
    \/ \E c \in Secondaries : CoreStep(c)
    \/ \E a \in SlotAddrs, v \in SlotVals : GuestWriteSlot(a, v)

SpecSmp64 == InitSmp64 /\ [][NextSmp64]_vars

\* A Pi 2 with the default configuration.
InitSmp32 ==
    /\ InitDefault
    /\ version = 2
    /\ mem = [a \in SlotAddrs |-> 0]

NextSmp32 ==
    \/ NextInit
    \/ SystemReset
    \/ \E c \in Secondaries : CoreStep(c)
    \/ \E i \in Secondaries, v \in EntryVals : GuestPost(i, v)

SpecSmp32 == InitSmp32 /\ [][NextSmp32]_vars

(******************************* claims ************************************)
RamErrors == { "TooSmall", "TooLarge", "NotPowerOfTwo" }

\* size is 2^k bytes for some k
IsTwoPower(size) ==
    \/ size.b = 0 /\ \E k \in 0 .. 24 : size.mib = Pow2(k)
    \/ size.mib = 0 /\ \E k \in 0 .. 19 : size.b = Pow2(k)

RamVerdict == IF err \in RamErrors THEN err ELSE "Ok"

\* C1: once the RAM validation of raspi_init has run, the size was accepted
\* if and only if ramMin <= size <= ramMax and the size is a power of two;
\* a size below ramMin was rejected as TooSmall, one above ramMax as TooLarge
\* and one within the bounds that is no power of two as NotPowerOfTwo.
C1_RamValidation ==
    log # <<>> =>
      LET lo == bcm283x_boards(version).ram_size_min
          hi == bcm283x_boards(version).ram_size_max
          within == U64Le(lo, ram_size) /\ U64Le(ram_size, hi)
      IN  /\ (RamVerdict = "Ok") <=> (within /\ IsTwoPower(ram_size))
          /\ U64Lt(ram_size, lo) => RamVerdict = "TooSmall"
          /\ U64Lt(hi, ram_size) => RamVerdict = "TooLarge"
          /\ (within /\ ~IsTwoPower(ram_size)) => RamVerdict = "NotPowerOfTwo"

C1_Witness ==
    /\ version = 4
    /\ ram_size = GiBs(3)
    /\ err = "NotPowerOfTwo"

\* The (RAM size, model) pairs the validation accepts.
AcceptedConfigs ==
    { <<sz, v>> \in RamSizes \X Versions : ValidateRam(sz, v) = "Ok" }

\* C2: the revision word set on the SoC decodes back to its inputs: bits
\* 20..25 are log2(ram_size / MiB), bits 16..19 the manufacturer, bits 12..15
\* the chip, bits 4..11 the board type, bits 0..3 the revision, and nothing
\* else is set; distinct accepted (RAM size, model) pairs give distinct words;
\* a Pi 2 with 1 GiB has RAM-log 10, manufacturer 2, chip 1, type 4, revision 1.
C2_RevisionWord ==
    /\ soc.board_rev # -1 =>
         LET w == soc.board_rev
             f == bcm283x_boards(version).board_rev
         IN  /\ ram_size = U64(Pow2((w \div 1048576) % 64), 0)
             /\ (w \div 65536) % 16 = f.manufacturer
             /\ (w \div 4096) % 16 = f.chip
             /\ (w \div 16) % 256 = f.type
             /\ w % 16 = f.revision
             /\ w < 67108864
             /\ version = 2 => w = 10 * 1048576 + 2 * 65536 + 1 * 4096 + 4 * 16 + 1
    /\ \A p \in AcceptedConfigs, q \in AcceptedConfigs :
         BoardRev(p[1], p[2]) = BoardRev(q[1], q[2]) => p = q

C2_Witness ==
    /\ version = 4
    /\ ram_size = GiBs(8)
    /\ soc.board_rev = 13 * 1048576 + 3 * 4096 + 17 * 16 + 1

\* C3: the descriptor handed to arm_load_kernel carries the model's legacy
\* board id; secure setup is installed exactly for version <= 2; the
\* secondary-boot writer is write_smpboot for version 2 and write_smpboot64
\* for version >= 3, entered at 0x300; the secondary reset hook is registered;
\* a Pi 3 with 1 GiB and no firmware has no secure setup, the 64-bit writer
\* and board id 0xc44.
C3_BootDescriptor ==
    pc = "done" =>
      /\ binfo.board_id = bcm283x_boards(version).board_id
      /\ binfo.secure_board_setup <=> version <= 2
      /\ binfo.secure_boot <=> version <= 2
      /\ (binfo.write_board_setup = "write_board_setup") <=> version <= 2
      /\ (\E r \in roms : r.name = "board-setup") <=> version <= 2
      /\ binfo.write_secondary_boot =
           (IF version = 2 THEN "write_smpboot" ELSE "write_smpboot64")
      /\ binfo.smp_loader_start = 768
      /\ binfo.secondary_cpu_reset_hook = "reset_secondary"
      /\ (version = 3 /\ ram_size = GiBs(1) /\ ~firmware.present) =>
           /\ ~binfo.secure_board_setup
           /\ binfo.write_secondary_boot = "write_smpboot64"
           /\ binfo.board_id = 3140

C3_Witness ==
    /\ pc = "done"
    /\ version = 3
    /\ ram_size = GiBs(1)
    /\ ~firmware.present
    /\ binfo.board_id = 3140

\* The space between the load address and the end of usable RAM.
FirmwareSpace ==
    U64Sub(U64Sub(ram_size, vcram),
           Bytes(IF version = 2 THEN 32768 ELSE 524288))

\* C4: a supplied firmware image is loaded at 0x8000 on version 2 and at
\* 0x80000 on version >= 3 and accepted if and only if its size is at most
\* (ram_size - vcram) - load address; when accepted the load address is the
\* entry point and firmware_loaded is set; when not, construction exits and
\* arm_load_kernel is never called.
C4_FirmwareFit ==
    (firmware.present /\ fw_call.made) =>
      /\ fw_call.addr = (IF version = 2 THEN 32768 ELSE 524288)
      /\ fw_call.max_sz = FirmwareSpace
      /\ (err = "FirmwareLoad") <=> U64Lt(FirmwareSpace, firmware.size)
      /\ U64Le(firmware.size, FirmwareSpace) =>
           /\ binfo.entry = fw_call.addr
           /\ binfo.firmware_loaded
           /\ pc \in {"arm_load_kernel", "done"}
      /\ U64Lt(FirmwareSpace, firmware.size) =>
           /\ pc = "exit"
           /\ ~binfo.firmware_loaded
           /\ roms = {}
           /\ \A k \in 1 .. Len(log) : log[k] # "arm_load_kernel"

C4_Witness ==
    /\ version = 2
    /\ firmware.present
    /\ firmware.size = FirmwareSpace
    /\ binfo.firmware_loaded
    /\ pc = "done"

\* C5: when the RAM validation fails, construction has exited with the
\* validation as its only step: no SoC, no RAM, no realized device, no SD
\* card, no descriptor, no registered blob; a Pi 4 with 10 GiB fails as
\* TooLarge.
C5_FailFast ==
    /\ err \in RamErrors =>
         /\ pc = "exit"
         /\ log = << "validate_ram" >>
         /\ soc = ZeroSoc
         /\ binfo = ZeroBootInfo
         /\ ~fw_call.made
         /\ roms = {}
         /\ run = "off"
    /\ (log # <<>> /\ version = 4 /\ ram_size = GiBs(10)) => err = "TooLarge"
    /\ (log # <<>> /\ ~(U64Le(bcm283x_boards(version).ram_size_min, ram_size)
                        /\ U64Le(ram_size, bcm283x_boards(version).ram_size_max)
                        /\ IsTwoPower(ram_size))) => pc = "exit"

C5_Witness ==
    /\ version = 4
    /\ ram_size = GiBs(10)
    /\ err = "TooLarge"
    /\ pc = "exit"

SlotsZero == \A a \in {216, 224, 232, 240} : mem[a] = 0

\* C6: on version >= 3, once the image has been loaded (the blobs copied by
\* the reset) and before any core has executed, the four slots at 0xd8, 0xe0,
\* 0xe8 and 0xf0 are zero, whatever RAM held before.
C6_SlotsZeroAtLoad ==
    (version >= 3 /\ run = "reset") => SlotsZero

C6_Witness ==
    /\ version = 4
    /\ run = "reset"
    /\ \E r \in roms : r.name = "raspi_spintables"

\* C7: the 32-bit trampoline blob is registered at 0x300 and ends at or
\* before 0x400, and shares no address with the secure vectors or the board
\* setup stub.
C7_TrampolineFits ==
    \A r \in roms :
       (version = 2 /\ r.name = "raspi_smpboot") =>
          /\ r.addr = 768
          /\ r.addr + 4 * Len(r.data) <= 1024
          /\ \A q \in roms :
               q.name \in {"mvbar", "board-setup"} =>
                  /\ q.addr >= 1024
                  /\ r.addr + 4 * Len(r.data) <= q.addr

C7_Witness ==
    /\ version = 2
    /\ \E r \in roms : r.name = "raspi_smpboot"
    /\ \E q \in roms : q.name = "mvbar"

In64(c) == 768 <= cpu[c].pc /\ cpu[c].pc < 768 + 44

\* C8: on version >= 3 every secondary core is at 0x300 after a reset; while
\* in the trampoline it loads from no address but its own slot 0xd8 + 8 * c;
\* it is outside the trampoline only after loading a nonzero value from that
\* slot, and is then at exactly that value with x0..x3 zero; a core that has
\* loaded only zero is still inside.
C8_SpinTable ==
    (version >= 3 /\ run # "off") =>
      \A c \in Secondaries :
         /\ run = "reset" => cpu[c].pc = 768
         /\ cpu[c].rd \subseteq {216 + 8 * c}
         /\ cpu[c].wr = <<>>
         /\ cpu[c].stub = <<>>
         /\ cpu[c].lv = 0 => In64(c)
         /\ ~In64(c) =>
              /\ cpu[c].rd = {216 + 8 * c}
              /\ cpu[c].lv # 0
              /\ cpu[c].pc = cpu[c].lv
              /\ cpu[c].r["x4"] = cpu[c].lv
              /\ \A x \in {"x0", "x1", "x2", "x3"} : cpu[c].r[x] = 0

C8_Witness ==
    /\ version = 3
    /\ cpu[1].pc = 65536
    /\ In64(2) /\ cpu[2].lv = 0 /\ cpu[2].rd # {}
    /\ mem[224] # 0
    /\ mem[232] = 0
    /\ mem[240] = 32768

C9_Position(x) == CHOOSE k \in 1 .. Len(log) : log[k] = x

\* C9 as stated: in a completed construction the RAM validation comes first,
\* every device and memory step (SoC initialisation, RAM allocation, SoC
\* set-up, SoC realization, SD card) comes before the revision encoding,
\* which comes before the descriptor assembly, and the loader call is last.
C9_AsStated ==
    pc = "done" =>
      /\ log[1] = "validate_ram"
      /\ \A d \in {"init_soc", "alloc_ram", "setup_soc", "realize_soc", "attach_sd"} :
            C9_Position(d) < C9_Position("encode_rev")
      /\ C9_Position("encode_rev") < C9_Position("setup_boot")
      /\ log[Len(log)] = "arm_load_kernel"

C9_Expected ==
    << "validate_ram", "init_soc", "alloc_ram", "setup_soc", "encode_rev",
       "realize_soc", "attach_sd", "get_vcram", "setup_boot", "load_firmware",
       "arm_load_kernel" >>

\* C9 amended: the steps run so far are always a prefix of: RAM validation,
\* SoC initialisation, RAM allocation, SoC set-up, revision encoding, SoC
\* realization, SD card, usable RAM, descriptor assembly, firmware load,
\* loader call; a completed construction has run all of them, each once: the
\* revision word is computed before the SoC is realized, the loader call is
\* last.
C9_Order ==
    /\ \E n \in 0 .. Len(C9_Expected) : log = SubSeq(C9_Expected, 1, n)
    /\ pc = "done" => log = C9_Expected
    /\ soc.realized => soc.board_rev # -1

C9_Witness ==
    /\ pc = "done"
    /\ soc.realized
    /\ Len(log) = 11

In32(c) == 768 <= cpu[c].pc /\ cpu[c].pc < 768 + 48

C10_Inv ==
    (version = 2 /\ run # "off") =>
      \A c \in Secondaries :
         /\ run = "reset" => cpu[c].pc = 768
         /\ cpu[c].stub \in {<<>>, <<1056>>}
         /\ cpu[c].rd # {} => cpu[c].stub = <<1056>>
         /\ cpu[c].rd \subseteq {1073742028 + 16 * c}
         /\ cpu[c].wr \in {<<>>, << <<1073742028 + 16 * c, cpu[c].lv>> >>}
         /\ cpu[c].wr # <<>> => cpu[c].lv # 0
         /\ ~In32(c) =>
              /\ cpu[c].lv # 0
              /\ cpu[c].pc = cpu[c].lv
              /\ cpu[c].wr # <<>>

\* C10: on version 2 a secondary core c starts at 0x300 after a reset, calls
\* the board-setup stub at 0x420 once before its first load, loads from no
\* address but 0x400000CC + 16 * c, and is outside the trampoline only after
\* loading a nonzero v from there, storing v to that same word as its only
\* store, and jumping to v; that store clears the bits of v in its mailbox.
C10_Mailbox ==
    /\ []C10_Inv
    /\ [][\A c \in Secondaries :
            (version = 2 /\ Len(cpu'[c].wr) > Len(cpu[c].wr))
               => BitAnd(mbox'[c], cpu'[c].lv) = 0]_vars

C10_Witness ==
    /\ version = 2
    /\ cpu[1].pc = 32768
    /\ mbox[1] = 0
    /\ In32(2) /\ cpu[2].lv = 0 /\ cpu[2].rd # {}
    /\ mbox[3] = 98304

====
